---- MODULE Spec2Model ----
(***************************************************************************)
(* Star-system simulator: planets_from_file (helperfunctions.py) builds a  *)
(* list of CelestialBody objects from the records of a text file,          *)
(* StarSystem.__init__ (object_klasses.py) derives one sphere per body,    *)
(* and StarSystem.start drives StarSystem.move for n ticks.                *)
(*                                                                         *)
(* Numbers.  The program computes with IEEE doubles.  The model keeps      *)
(* every quantity on an integer grid and rounds each quotient toward zero  *)
(* (TDiv), so a step smaller than one grid unit is absorbed, as a double   *)
(* absorbs an addend below half an ulp.  The `radius' argument of a body   *)
(* is in metres.  A scaled display radius (self.r with scaling) is kept in *)
(* units of Mult5 = 50 m, the smallest multiplier, so that it stays below  *)
(* 2^31.  Orbit radii and positions are in units of Mult1 = 10^8 m, so     *)
(* that a display radius of the first bucket is a whole number of them.    *)
(* cos and sin are not evaluated: the term orbit_r*(cos a, sin a, 0) that  *)
(* move() adds to the mother's position is kept as the pair `arm' =        *)
(* [rad, q] with a = q*pi/50000, whose length is rad.                      *)
(***************************************************************************)
EXTENDS Integers, Sequences, FiniteSets, TLC

\* ------------------------------------------------------------------ bounds

\* lines of the file read under SpecBuild (construction only)
MaxLines == 4

\* lines of the file read under Spec (construction and simulation)
MaxSimLines == 3

\* largest total_ticks passed to start()
MaxTicks == 3

\* --------------------------------------------------------------- constants

\* grav_constant: the default is -6.6742e-11; the model's units of mass and
\* time are chosen so that its magnitude is 1; the sign is the source's.
grav_constant == -1

\* CelestialBody.__init__ bucket thresholds (metres)
Bucket1 == 1000

Bucket2 == 10000

Bucket3 == 10000000

Bucket4 == 100000000

\* CelestialBody.__init__ bucket multipliers
Mult1 == 100000000

Mult2 == 1000000

Mult3 == 1000

Mult4 == 250

Mult5 == 50

\* randint(0, 50000): the largest initial phase counter
PhaseMax == 50000

\* body.n - body.n % 100: the phase counter is rounded down to a multiple
PhaseStep == 100

VARIABLES
    pc,                 \* where main() is: "reading", "listed", "idle", "running", "stopped", "failed", "crashed"
    scaling,            \* planets_from_file's scaling argument
    line,               \* the line the loop of planets_from_file holds
    nread,              \* number of lines read so far
    solar_system_list,  \* planets_from_file's result list
    err,                \* the exception that ended the program, or "none"
    celestial_bodies,   \* StarSystem.celestial_bodies: the spheres
    star_mass,          \* StarSystem.star_mass
    n,                  \* start()'s n
    dt,                 \* start()'s dt
    move_satellites,    \* start()'s move_satellites
    t,                  \* start()'s loop counter
    calls               \* number of move() calls begun (history)

vars == <<pc, scaling, line, nread, solar_system_list, err, celestial_bodies,
          star_mass, n, dt, move_satellites, t, calls>>

\* ------------------------------------------------------------- arithmetic

Abs(a) == IF a < 0 THEN -a ELSE a

\* quotient rounded toward zero
TDiv(a, b) == IF (a < 0) = (b < 0) THEN Abs(a) \div Abs(b) ELSE -(Abs(a) \div Abs(b))

RECURSIVE Newton(_, _)
Newton(a, x) ==
    LET y == (x + a \div x) \div 2
    IN  IF y >= x THEN x ELSE Newton(a, y)

\* integer square root
ISqrt(a) == IF a <= 0 THEN 0 ELSE Newton(a, a)

ZeroVec == <<0, 0, 0>>

VAdd(a, b) == <<a[1] + b[1], a[2] + b[2], a[3] + b[3]>>

VSub(a, b) == <<a[1] - b[1], a[2] - b[2], a[3] - b[3]>>

VScale(k, a) == <<k * a[1], k * a[2], k * a[3]>>

VDiv(a, k) == <<TDiv(a[1], k), TDiv(a[2], k), TDiv(a[3], k)>>

\* vpython mag()
mag(a) == ISqrt(a[1] * a[1] + a[2] * a[2] + a[3] * a[3])

\* ------------------------------------------------------------ input lines

\* A line of the file after line 21 has split it: `hash' says that its first
\* character is '#', `info' is the list of fields (names and colours are
\* numbered), `numeric' says that float() accepts every field it is given.
StarLine == [hash |-> FALSE, numeric |-> TRUE, info |-> <<1, 1, 100, 1>>]

PlanetA == [hash |-> FALSE, numeric |-> TRUE, info |-> <<2, 3, 1, 1, 0, 2>>]

PlanetB == [hash |-> FALSE, numeric |-> TRUE, info |-> <<3, 20, 2, 50, 0, 3>>]

PlanetZero == [hash |-> FALSE, numeric |-> TRUE, info |-> <<4, 0, 1, 2, 1, 5>>]

MoonLine == [hash |-> FALSE, numeric |-> TRUE, info |-> <<9, 5, 1, 1, 1, 1, 6>>]

FiveFields == [hash |-> FALSE, numeric |-> TRUE, info |-> <<1, 2, 3, 4, 5>>]

CommentLine == [hash |-> TRUE, numeric |-> TRUE, info |-> <<1, 1, 100, 1>>]

BadNumber == [hash |-> FALSE, numeric |-> FALSE, info |-> <<2, 3, 1, 1, 0, 2>>]

Lines == {StarLine, PlanetA, PlanetB, PlanetZero, MoonLine, FiveFields, CommentLine, BadNumber}

NoLine == [hash |-> TRUE, numeric |-> TRUE, info |-> <<>>]

\* start()'s dt arguments
DtSamples == {1, 2}

\* the values randint(0, 50000) is taken to return
PhaseSamples == {0, PhaseStep - 1, PhaseMax}

\* ---------------------------------------------------------- CelestialBody

ScaleRadius_inclusive(radius) ==
    IF 0 < radius /\ radius <= Bucket1 THEN radius * (Mult1 \div Mult5)
    ELSE IF radius < Bucket2 THEN radius * (Mult2 \div Mult5)
    ELSE IF radius < Bucket3 THEN radius * (Mult3 \div Mult5)
    ELSE IF radius < Bucket4 THEN radius * (Mult4 \div Mult5)
    ELSE radius * (Mult5 \div Mult5)

\* lines 40-49: the scaled self.r, in units of Mult5 metres
ScaleRadius(radius) ==
    IF 0 < radius /\ radius < Bucket1 THEN radius * (Mult1 \div Mult5)
    ELSE IF radius < Bucket2 THEN radius * (Mult2 \div Mult5)
    ELSE IF radius < Bucket3 THEN radius * (Mult3 \div Mult5)
    ELSE IF radius < Bucket4 THEN radius * (Mult4 \div Mult5)
    ELSE radius * (Mult5 \div Mult5)

\* CelestialBody(...): `mother' is the index of the mother in `bodies', 0 for
\* None.  `radius' and `nfields' are history fields: the radius argument and the
\* length of the record the body was built from (0: built directly).
\* Line 60, self.orbit_r += self.mother.r * 2, converts the mother's scaled
\* radius from its unit (Mult5 m) to the unit of lengths (Mult1 m).
CelestialBody(name, radius, mass, colour, v, orbit_r, mother, mother_radius, scl, bodies, nf) ==
    [name |-> name,
     r |-> IF scl THEN ScaleRadius(radius) ELSE radius,
     colour |-> colour,
     mass |-> mass,
     orbit_r |-> IF scl /\ mother # 0
                 THEN orbit_r + (bodies[mother].r * 2) \div (Mult1 \div Mult5)
                 ELSE orbit_r,
     v |-> v,
     mother |-> mother,
     mother_radius |-> mother_radius,
     radius |-> radius,
     nfields |-> nf]

\* ------------------------------------------------------ planets_from_file

IsComment_never(l) == FALSE

\* line 20
IsComment(l) == l.hash

RECURSIVE FirstParentless(_, _)
FirstParentless(objs, i) ==
    IF i > Len(objs) THEN 0
    ELSE IF objs[i].mother = 0 THEN i
    ELSE FirstParentless(objs, i + 1)

RECURSIVE LastParentless(_, _)
LastParentless(objs, i) ==
    IF i = 0 THEN 0
    ELSE IF objs[i].mother = 0 THEN i
    ELSE LastParentless(objs, i - 1)

NearestParentless_forward(objs) == FirstParentless(objs, 1)

\* for x in reversed(objs): if x.mother is None: ...; break
\* the index of the object the loop stops at, 0 when it finds none
NearestParentless(objs) == LastParentless(objs, Len(objs))

Unbound_initialised(m) == FALSE

\* the locals r and mother are unbound when the loop found no body
Unbound(m) == m = 0

\* the body of the loop for one line; the result is [list, err]
ProcessLine(l, list, scl) ==
    LET info == l.info
        m == NearestParentless(list)
    IN  IF IsComment(l) THEN [list |-> list, err |-> "none"]
        ELSE IF Len(info) \notin {4, 6, 7} THEN [list |-> list, err |-> "none"]
        ELSE IF ~l.numeric THEN [list |-> list, err |-> "ValueError"]
        ELSE IF Len(info) = 4
             THEN [list |-> Append(list, CelestialBody(info[1], info[2], info[3], info[4],
                                                       0, 0, 0, 0, scl, list, 4)),
                   err |-> "none"]
        ELSE IF Len(info) = 6
             THEN [list |-> Append(list, CelestialBody(info[1], info[3], info[4], info[6],
                                                       info[5], info[2], 0, 0, scl, list, 6)),
                   err |-> "none"]
        ELSE IF Unbound(m) THEN [list |-> list, err |-> "UnboundLocalError"]
        ELSE [list |-> Append(list, CelestialBody(info[2], info[4], info[5], info[7],
                                                  info[6], info[3], m,
                                                  IF m = 0 THEN 0 ELSE list[m].orbit_r,
                                                  scl, list, 7)),
              err |-> "none"]

ReadLine(l, max) ==
    /\ pc = "reading"
    /\ nread < max
    /\ LET res == ProcessLine(l, solar_system_list, scaling)
       IN  /\ solar_system_list' = res.list
           /\ err' = res.err
           /\ pc' = IF res.err = "none" THEN "reading" ELSE "failed"
    /\ line' = l
    /\ nread' = nread + 1
    /\ UNCHANGED <<scaling, celestial_bodies, star_mass, n, dt, move_satellites, t, calls>>

\* the file is exhausted: return solar_system_list
EndOfFile ==
    /\ pc = "reading"
    /\ pc' = "listed"
    /\ UNCHANGED <<scaling, line, nread, solar_system_list, err, celestial_bodies,
                   star_mass, n, dt, move_satellites, t, calls>>

\* ------------------------------------------------------ StarSystem.__init__

\* the sphere of bodies[i], given the spheres built so far; ph is randint's value
Sphere(body, sofar, ph) ==
    LET m == IF body.mother # 0 THEN NearestParentless(sofar) ELSE 0
    IN  [pos |-> <<body.orbit_r + body.mother_radius, 0, 0>>,
         arm |-> [rad |-> 0, q |-> 0],
         p |-> VScale(body.mass, <<0, body.v, 0>>),
         mother |-> m,
         n |-> IF m # 0 THEN ph ELSE 0]

RECURSIVE Spheres(_, _, _)
Spheres(bodies, phases, k) ==
    IF k = 0 THEN <<>>
    ELSE LET sofar == Spheres(bodies, phases, k - 1)
         IN  Append(sofar, Sphere(bodies[k], sofar, phases[k]))

\* randint is drawn only for a satellite
PhaseChoices(bodies) ==
    {ph \in [1..Len(bodies) -> PhaseSamples \cup {0}] :
        \A i \in 1..Len(bodies) :
            IF bodies[i].mother # 0 THEN ph[i] \in PhaseSamples ELSE ph[i] = 0}

StarSystemInit ==
    /\ pc = "listed"
    /\ IF solar_system_list = <<>>
       THEN /\ pc' = "failed"
            /\ err' = "IndexError"
            /\ UNCHANGED <<celestial_bodies, star_mass>>
       ELSE \E ph \in PhaseChoices(solar_system_list) :
            LET sph == Spheres(solar_system_list, ph, Len(solar_system_list))
            IN  IF \E i \in 1..Len(sph) : solar_system_list[i].mother # 0 /\ sph[i].mother = 0
                THEN /\ pc' = "failed"
                     /\ err' = "AttributeError"
                     /\ UNCHANGED <<celestial_bodies, star_mass>>
                ELSE /\ celestial_bodies' = sph
                     /\ star_mass' = solar_system_list[1].mass
                     /\ pc' = "idle"
                     /\ err' = "none"
    /\ UNCHANGED <<scaling, line, nread, solar_system_list, n, dt, move_satellites, t, calls>>

\* ------------------------------------------------------------ construction

Init ==
    /\ pc = "reading"
    /\ scaling \in BOOLEAN
    /\ line = NoLine
    /\ nread = 0
    /\ solar_system_list = <<>>
    /\ err = "none"
    /\ celestial_bodies = <<>>
    /\ star_mass = 0
    /\ n = 0
    /\ dt = 0
    /\ move_satellites = FALSE
    /\ t = 0
    /\ calls = 0

NextBuild ==
    \/ \E l \in Lines : ReadLine(l, MaxLines)
    \/ EndOfFile
    \/ StarSystemInit

SpecBuild == Init /\ [][NextBuild]_vars

\* --------------------------------------------------------- StarSystem.move

\* self.celestial_bodies[1::] starts at the second sphere
FirstMoved == 2

MoonCircles_always(CB, ms) == CB.mother # 0

\* line 149: CB.mother and move_satellites
MoonCircles(CB, ms) == CB.mother # 0 /\ ms

Quantise_exact(k) == k

\* line 150: body.n - body.n % 100
Quantise(k) == k - (k % PhaseStep)

Anchor_self(sph, i) == sph[i].pos

\* line 151: body.mother.pos
Anchor(sph, i) == sph[sph[i].mother].pos

\* lines 150-154
Circle(sph, i, CB) ==
    [sph[i] EXCEPT !.pos = Anchor(sph, i),
                   !.arm = [rad |-> CB.orbit_r, q |-> Quantise(sph[i].n)],
                   !.n = sph[i].n + 1]

Force_repulsive(pos, mass, M) ==
    VDiv(VDiv(VScale((-grav_constant) * M * mass, pos), mag(pos)), mag(pos) * mag(pos))

\* line 156: grav_constant * star_mass * CB.mass * norm(pos) / mag(pos) ** 2,
\* where norm(pos) is pos / mag(pos); the scalar factors are multiplied in
\* before the two divisions so that the quotient keeps its integer part
Force(pos, mass, M) ==
    VDiv(VDiv(VScale(grav_constant * M * mass, pos), mag(pos)), mag(pos) * mag(pos))

\* lines 156-158; line 158 uses the momentum line 157 has just updated
Gravitate(s, CB, d, M) ==
    LET p1 == VAdd(s.p, VScale(d, Force(s.pos, CB.mass, M)))
    IN  [s EXCEPT !.p = p1,
                  !.pos = VAdd(s.pos, VDiv(VScale(d, p1), CB.mass))]

\* line 156 divides by mag(pos) ** 2 and line 158 by CB.mass: ZeroDivisionError
DividesByZero(s, CB) == mag(s.pos) = 0 \/ CB.mass = 0

\* the loop of move() from sphere i on; ok is FALSE when an iteration raised,
\* and the spheres moved before it keep their new state
RECURSIVE MoveFrom(_, _, _, _, _, _)
MoveFrom(sph, bodies, i, d, ms, M) ==
    IF i > Len(sph) THEN [ok |-> TRUE, sph |-> sph]
    ELSE IF MoonCircles(bodies[i], ms)
         THEN MoveFrom([sph EXCEPT ![i] = Circle(sph, i, bodies[i])], bodies, i + 1, d, ms, M)
    ELSE IF DividesByZero(sph[i], bodies[i]) THEN [ok |-> FALSE, sph |-> sph]
    ELSE MoveFrom([sph EXCEPT ![i] = Gravitate(sph[i], bodies[i], d, M)], bodies, i + 1, d, ms, M)

move_all(sph, bodies, d, ms, M) == MoveFrom(sph, bodies, 1, d, ms, M)

\* line 145: for body in self.celestial_bodies[1::]
move(sph, bodies, d, ms, M) == MoveFrom(sph, bodies, FirstMoved, d, ms, M)

\* -------------------------------------------------------- StarSystem.start

\* start(n, dt, move_satellites): t = 0; sleep(5)
Start(nn, d, ms) ==
    /\ pc = "idle"
    /\ pc' = "running"
    /\ n' = nn
    /\ dt' = d
    /\ move_satellites' = ms
    /\ t' = 0
    /\ UNCHANGED <<scaling, line, nread, solar_system_list, err, celestial_bodies,
                   star_mass, calls>>

\* one iteration of the while loop: rate(1000); self.move(...); t += 1
Tick ==
    /\ pc = "running"
    /\ t < n
    /\ LET res == move(celestial_bodies, solar_system_list, dt, move_satellites, star_mass)
       IN  /\ celestial_bodies' = res.sph
           /\ calls' = calls + 1
           /\ IF res.ok
              THEN /\ t' = t + 1
                   /\ UNCHANGED <<pc, err>>
              ELSE /\ pc' = "crashed"
                   /\ err' = "ZeroDivisionError"
                   /\ UNCHANGED t
    /\ UNCHANGED <<scaling, line, nread, solar_system_list, star_mass, n, dt, move_satellites>>

\* the while condition fails: start() returns
Stop ==
    /\ pc = "running"
    /\ ~(t < n)
    /\ pc' = "stopped"
    /\ UNCHANGED <<scaling, line, nread, solar_system_list, err, celestial_bodies,
                   star_mass, n, dt, move_satellites, t, calls>>

\* main(): StarSystem(planets_from_file(...)).start(...)
Next ==
    \/ \E l \in Lines : ReadLine(l, MaxSimLines)
    \/ EndOfFile
    \/ StarSystemInit
    \/ \E nn \in 0..MaxTicks, d \in DtSamples, ms \in BOOLEAN : Start(nn, d, ms)
    \/ Tick
    \/ Stop

Spec == Init /\ [][Next]_vars

\* ------------------------------------------- CelestialBody built directly

\* bodies built under SpecScale
MaxScaled == 2

\* radius arguments on both sides of every bucket threshold
RadiusSamples == {1, Bucket1 - 1, Bucket1, Bucket2 - 1, Bucket2, Bucket3 - 1, Bucket3,
                  Bucket4 - 1, Bucket4, Bucket4 + 1}

\* CelestialBody(name, radius, mass, scaling=scaling), kept in a list
NewBody(radius) ==
    /\ pc = "scale"
    /\ Len(solar_system_list) < MaxScaled
    /\ solar_system_list' = Append(solar_system_list,
                                   CelestialBody(1, radius, 1, 1, 0, 0, 0, 0, scaling,
                                                 solar_system_list, 0))
    /\ UNCHANGED <<pc, scaling, line, nread, err, celestial_bodies, star_mass, n, dt,
                   move_satellites, t, calls>>

InitScale ==
    /\ pc = "scale"
    /\ scaling \in BOOLEAN
    /\ line = NoLine
    /\ nread = 0
    /\ solar_system_list = <<>>
    /\ err = "none"
    /\ celestial_bodies = <<>>
    /\ star_mass = 0
    /\ n = 0
    /\ dt = 0
    /\ move_satellites = FALSE
    /\ t = 0
    /\ calls = 0

NextScale == \E radius \in RadiusSamples : NewBody(radius)

SpecScale == InitScale /\ [][NextScale]_vars

\* ================================================================ claims

Bodies == 1..Len(solar_system_list)

\* the StarSystem has been constructed
Built == pc \in {"idle", "running", "stopped", "crashed"}

\* the spheres of satellites
Moons == {i \in 1..Len(celestial_bodies) : celestial_bodies[i].mother # 0}

\* a step that is one iteration of start()'s loop in which move() returned
TickDone == pc = "running" /\ pc' = "running" /\ t' = t + 1

\* C1: start(n, dt, move_satellites) calls move() exactly n times and then
\* terminates in Stopped: start() never ends by an exception, never makes more
\* than n calls, and has made exactly n calls when it has stopped.
C1_StartRunsNTicks ==
    /\ pc # "crashed"
    /\ calls <= n
    /\ pc = "stopped" => calls = n /\ t = n

\* C2: every satellite record gets as mother the nearest preceding body that
\* has no mother, every body between the two being a satellite; star and planet
\* records get none; and the sphere of a satellite is linked to the sphere of
\* that same body.
C2_MoonParentNearest ==
    /\ \A i \in Bodies :
          LET b == solar_system_list[i]
          IN  IF b.nfields = 7
              THEN /\ b.mother \in 1..(i - 1)
                   /\ solar_system_list[b.mother].mother = 0
                   /\ \A k \in (b.mother + 1)..(i - 1) : solar_system_list[k].mother # 0
                   /\ b.mother_radius = solar_system_list[b.mother].orbit_r
              ELSE b.mother = 0
    /\ Built => /\ Len(celestial_bodies) = Len(solar_system_list)
                /\ \A i \in Bodies : celestial_bodies[i].mother = solar_system_list[i].mother

\* two consecutive satellites after a second parentless body, both linked to it
C2_Witness ==
    /\ pc = "idle"
    /\ \E i \in Bodies :
          /\ i >= 4
          /\ solar_system_list[i].nfields = 7
          /\ solar_system_list[i - 1].nfields = 7
          /\ solar_system_list[i].mother = i - 2
          /\ celestial_bodies[i - 1].mother = i - 2
          /\ celestial_bodies[i].mother = i - 2

\* the position of a satellite is its mother's current position plus an offset
\* of length L: either the Cartesian offset (L, 0, 0) given at construction or
\* the arm of length L that move() adds to the mother's position
OffsetHasLength(i, L) ==
    LET s == celestial_bodies[i]
        m == celestial_bodies[s.mother]
        d == VSub(s.pos, m.pos)
    IN  /\ m.arm.rad = 0
        /\ \/ s.arm.rad = 0 /\ d = <<L, 0, 0>>
           \/ s.arm.rad = L /\ d = ZeroVec

C4_AngleStrictlyIncreases ==
    [][(TickDone /\ move_satellites /\ calls >= 1) =>
          \A i \in Moons : celestial_bodies'[i].arm.q > celestial_bodies[i].arm.q]_vars

\* C4 amended: with move_satellites on, every call adds 1 to the phase counter
\* and uses the counter rounded down to a multiple of 100; from one call to the
\* next the angle never decreases, and it increases (by one step of 100) exactly
\* when the counter has reached a multiple of 100.
C4_AngleNeverDecreases ==
    [][(TickDone /\ move_satellites) =>
          \A i \in Moons :
             LET s == celestial_bodies[i]
                 s1 == celestial_bodies'[i]
             IN  /\ s1.n = s.n + 1
                 /\ s1.arm.q % PhaseStep = 0
                 /\ s1.arm.q <= s.n
                 /\ s.n < s1.arm.q + PhaseStep
                 /\ calls >= 1 =>
                       /\ s1.arm.q >= s.arm.q
                       /\ s1.arm.q > s.arm.q <=> s.n % PhaseStep = 0
                       /\ s1.arm.q > s.arm.q => s1.arm.q = s.arm.q + PhaseStep]_vars

\* a satellite whose angle has advanced between two calls
C4_Witness ==
    /\ pc = "running"
    /\ move_satellites
    /\ calls = 2
    /\ \E i \in Moons :
          /\ celestial_bodies[i].arm.q = PhaseStep
          /\ celestial_bodies[i].n = PhaseStep + 1

RestingPlanets ==
    {i \in Bodies : /\ i >= FirstMoved
                    /\ solar_system_list[i].mother = 0
                    /\ solar_system_list[i].mass > 0
                    /\ solar_system_list[i].orbit_r > 0
                    /\ solar_system_list[i].v = 0}

AfterFirstMove == Built /\ calls = 1 /\ t = 1 /\ star_mass > 0 /\ dt > 0

\* C6 as claimed: one call of move() displaces every such planet from its
\* initial position (orbit_r, 0, 0) toward the origin.
C6_MovesTowardStar ==
    AfterFirstMove =>
       \A i \in RestingPlanets :
          /\ celestial_bodies[i].pos[1] < solar_system_list[i].orbit_r
          /\ celestial_bodies[i].pos[2] = 0
          /\ celestial_bodies[i].pos[3] = 0

\* C6 amended: one call of move() gives every such planet a momentum that points
\* to the origin (strictly, once the force reaches one unit) and advances its
\* position by that new momentum * dt / mass; the planet is never displaced away
\* from the star, and it is displaced toward it exactly when the step
\* momentum * dt / mass reaches one unit of the position.
C6_NeverAwayFromStar ==
    AfterFirstMove =>
       \A i \in RestingPlanets :
          LET s == celestial_bodies[i]
              b == solar_system_list[i]
          IN  /\ s.p[1] <= 0
              /\ Abs(grav_constant) * star_mass * b.mass >= b.orbit_r * b.orbit_r => s.p[1] < 0
              /\ s.p[2] = 0
              /\ s.p[3] = 0
              /\ s.pos = <<b.orbit_r + TDiv(s.p[1] * dt, b.mass), 0, 0>>
              /\ s.pos[1] <= b.orbit_r
              /\ s.pos[1] < b.orbit_r <=> Abs(s.p[1]) * dt >= b.mass

\* a planet that one call has displaced toward the star
C6_Witness ==
    /\ AfterFirstMove
    /\ \E i \in RestingPlanets :
          celestial_bodies[i].pos[1] < solar_system_list[i].orbit_r

\* the body of a step in which planets_from_file takes one line
Reads == pc = "reading" /\ nread' = nread + 1

\* C7 as claimed (for lines whose numeric fields float() accepts): a line that
\* is no comment appends exactly one body when it has 4, 6 or 7 fields, and
\* appends nothing and raises nothing otherwise; a comment appends nothing.
C7_DispatchOnLength ==
    [][(Reads /\ line'.numeric) =>
          LET k == Len(line'.info)
          IN  /\ (~line'.hash /\ k \in {4, 6, 7}) =>
                    /\ Len(solar_system_list') = Len(solar_system_list) + 1
                    /\ err' = "none"
              /\ (line'.hash \/ k \notin {4, 6, 7}) =>
                    /\ solar_system_list' = solar_system_list
                    /\ err' = "none"]_vars

\* C7 amended: a line that is no comment appends exactly one body, built from
\* its fields (field 0 of a 7-field record dropped), when it has 4 or 6 fields,
\* or 7 fields and a body already in the list, and float() accepts its numeric
\* fields; a 4-, 6- or 7-field line without that raises and appends nothing; a
\* line of any other length and a comment append nothing and raise nothing.  The
\* bodies built before are never changed.
C7_DispatchOnLengthBuilt ==
    [][Reads =>
          LET k == Len(line'.info)
              info == line'.info
              old == solar_system_list
              new == solar_system_list'
          IN  /\ SubSeq(new, 1, Len(old)) = old
              /\ Len(new) <= Len(old) + 1
              /\ (line'.hash \/ k \notin {4, 6, 7}) =>
                    new = old /\ err' = "none" /\ pc' = "reading"
              /\ (~line'.hash /\ k \in {4, 6, 7} /\ line'.numeric /\ (k = 7 => old # <<>>)) =>
                    /\ Len(new) = Len(old) + 1
                    /\ err' = "none"
                    /\ new[Len(new)].nfields = k
                    /\ new[Len(new)].name = (IF k = 7 THEN info[2] ELSE info[1])
                    /\ new[Len(new)].colour = info[k]
                    /\ new[Len(new)].mass = info[IF k = 4 THEN 3 ELSE k - 2]
              /\ (~line'.hash /\ k \in {4, 6, 7} /\ ~(line'.numeric /\ (k = 7 => old # <<>>))) =>
                    new = old /\ err' # "none" /\ pc' = "failed"]_vars

\* a list that holds a star, a planet and a satellite, after a 5-field line
\* has been passed over
C7_Witness ==
    /\ pc = "reading"
    /\ line = FiveFields
    /\ nread = 4
    /\ Len(solar_system_list) = 3
    /\ solar_system_list[1].nfields = 4
    /\ solar_system_list[2].nfields = 6
    /\ solar_system_list[3].nfields = 7

\* C8: a 7-field record read while the list holds no parentless body ends the
\* program with an exception: no body is appended for it, the program never
\* leaves the failed state (no list is returned, no StarSystem is built), and
\* move() has not been and will not be called.
C8_MoonFirstFails ==
    /\ [][(Reads /\ ~line'.hash /\ Len(line'.info) = 7
              /\ \A i \in Bodies : solar_system_list[i].mother # 0) =>
             /\ pc' = "failed"
             /\ err' \in {"UnboundLocalError", "ValueError"}
             /\ solar_system_list' = solar_system_list]_vars
    /\ [][pc = "failed" => UNCHANGED vars]_vars
    /\ [](pc = "failed" => calls = 0 /\ t = 0 /\ celestial_bodies = <<>>)

\* the program has failed on a satellite record read first
C8_Witness ==
    /\ pc = "failed"
    /\ err = "UnboundLocalError"
    /\ line = MoonLine
    /\ solar_system_list = <<>>

\* the bucket of CelestialBody.__init__ a radius falls in
BucketOf(radius) ==
    IF 0 < radius /\ radius < Bucket1 THEN 1
    ELSE IF radius < Bucket2 THEN 2
    ELSE IF radius < Bucket3 THEN 3
    ELSE IF radius < Bucket4 THEN 4
    ELSE 5

\* C9 as claimed: with scaling, 0 < r1 <= r2 implies that the display radius
\* of r1 is at most that of r2.
C9_DisplayRadiusMonotonic ==
    scaling =>
       \A i, j \in Bodies :
          (0 < solar_system_list[i].radius
             /\ solar_system_list[i].radius <= solar_system_list[j].radius)
          => solar_system_list[i].r <= solar_system_list[j].r

\* C9 amended: with scaling, the display radius is monotonic for radii of the
\* same bucket; from a radius below a threshold to one above it (up to twice
\* as large) the display radius drops.
C9_MonotonicWithinBucket ==
    scaling =>
       \A i, j \in Bodies :
          LET bi == solar_system_list[i]
              bj == solar_system_list[j]
          IN  /\ (0 < bi.radius /\ bi.radius <= bj.radius
                    /\ BucketOf(bi.radius) = BucketOf(bj.radius)) => bi.r <= bj.r
              /\ (0 < bi.radius /\ bi.radius < bj.radius
                    /\ BucketOf(bi.radius) + 1 = BucketOf(bj.radius)
                    /\ bj.radius <= 2 * bi.radius) => bi.r > bj.r

\* two bodies of one bucket, the larger with the larger display radius
C9_Witness ==
    /\ scaling
    /\ \E i, j \in Bodies :
          /\ solar_system_list[i].radius < solar_system_list[j].radius
          /\ BucketOf(solar_system_list[i].radius) = BucketOf(solar_system_list[j].radius)
          /\ solar_system_list[i].r < solar_system_list[j].r

\* C10: the first body is never moved: after construction and after any number
\* of move() calls in either mode its sphere is where __init__ put it, the
\* origin with no momentum for a star record; star_mass is that body's mass, and
\* the force on every body that move() integrates is computed from star_mass and
\* the body's own mass alone.
C10_StarStationary ==
    /\ [](Built =>
            LET s == celestial_bodies[1]
                b == solar_system_list[1]
            IN  /\ s.pos = <<b.orbit_r, 0, 0>>
                /\ s.arm.rad = 0
                /\ s.p = <<0, b.mass * b.v, 0>>
                /\ b.nfields = 4 => s.pos = ZeroVec /\ s.p = ZeroVec
                /\ star_mass = b.mass)
    /\ [][TickDone =>
             \A i \in 2..Len(celestial_bodies) :
                (solar_system_list[i].mother = 0 \/ ~move_satellites) =>
                   celestial_bodies'[i].p
                      = VAdd(celestial_bodies[i].p,
                             VScale(dt, Force(celestial_bodies[i].pos,
                                              solar_system_list[i].mass,
                                              solar_system_list[1].mass)))]_vars

\* a star at rest at the origin after two calls that moved a planet
C10_Witness ==
    /\ pc = "stopped"
    /\ calls >= 2
    /\ solar_system_list[1].nfields = 4
    /\ celestial_bodies[1].pos = ZeroVec
    /\ \E i \in 2..Len(celestial_bodies) :
          celestial_bodies[i].pos # <<solar_system_list[i].orbit_r, 0, 0>>

====
